---- MODULE Spec2Model ----
(***************************************************************************)
(* Model of the key-value caching facade of rstartup (src/src/kv.rs):      *)
(* KVManager over the KVFilesystem and KVRedis backends, with the derived  *)
(* operations get_some, get_or and get_or_init.                            *)
(*                                                                         *)
(* Callers are asynchronous tasks.  A task's steps are the points where    *)
(* its future touches the physical store: a file read, File::create (open  *)
(* with truncation), the write of the buffer, remove_file, a redis command,*)
(* the completion of the initializer.  Everything a future does between    *)
(* two such points is local to the task and is part of the step.           *)
(***************************************************************************)
EXTENDS Integers, Sequences, FiniteSets, TLC

\* ------------------------------------------------------------------ bounds
NProcs == 2
MaxClock == 3
MaxCalls == 2

Procs == 1..NProcs

\* ------------------------------------------------------------ u64 numbers
\* A u64 x is represented by the integer r with r = x for the small values
\* and r = x - 2^64 for the values just below 2^64 (its two's-complement
\* residue), so u64::MAX is -1.  On this window wrapping addition mod 2^64 is
\* integer addition of the representatives; order is the unsigned order.
U64Max == -1

wrapping_add(a, b) == a + b

\* a + b >= 2^64 for the represented values
overflows(a, b) ==
    \/ a < 0 /\ b < 0
    \/ a < 0 /\ b >= 0 /\ a + b >= 0
    \/ b < 0 /\ a >= 0 /\ a + b >= 0

\* a <= b in place of a < b
u64_le(a, b) == IF (a < 0) = (b < 0) THEN a <= b ELSE a >= 0

\* unsigned a < b
u64_lt(a, b) == IF (a < 0) = (b < 0) THEN a < b ELSE a >= 0

\* ------------------------------------------------------------- JSON text
DigitChars == <<"0", "1", "2", "3", "4", "5", "6", "7", "8", "9">>

IsDigit(c) == \E d \in 1..10 : DigitChars[d] = c

DigitVal(c) == (CHOOSE d \in 1..10 : DigitChars[d] = c) - 1

RECURSIVE FmtNat(_)
FmtNat(n) ==
    IF n < 10 THEN <<DigitChars[n + 1]>>
    ELSE FmtNat(n \div 10) \o <<DigitChars[(n % 10) + 1]>>

\* 2^64 = 18446744073709551616: the leading sixteen digits and the last four.
U64TopDigits ==
    <<"1", "8", "4", "4", "6", "7", "4", "4", "0", "7", "3", "7", "0", "9", "5", "5">>

U64LowDigits == 1616

Pad4(n) ==
    <<DigitChars[(n \div 1000) + 1], DigitChars[((n \div 100) % 10) + 1],
      DigitChars[((n \div 10) % 10) + 1], DigitChars[(n % 10) + 1]>>

\* itoa of a u64
FmtU64(r) == IF r >= 0 THEN FmtNat(r) ELSE U64TopDigits \o Pad4(U64LowDigits + r)

\* Values are tagged with their Rust type: u64 or String.
NoVal == [t |-> "none", n |-> 0, s |-> <<>>]
U64Val(n) == [t |-> "u64", n |-> n, s |-> <<>>]
StrVal(s) == [t |-> "String", n |-> 0, s |-> s]

Types == {"u64", "String"}
ValuesOf(B) == IF B = "u64" THEN {U64Val(7), U64Val(12)} ELSE {StrVal(<<"a">>)}
Values == ValuesOf("u64") \cup ValuesOf("String")

\* serde_json::to_string of a value
to_string(v) ==
    IF v.t = "u64" THEN FmtU64(v.n) ELSE <<"\"">> \o v.s \o <<"\"">>

EntryHead == <<"{", "\"", "d", "a", "t", "a", "\"", ":">>
EntryMid == <<",", "\"", "e", "x", "p", "i", "r", "e", "\"", ":">>
EntryTail == <<"}">>

\* serde_json::to_string of KVFilesystemJsonData { data, expire }
entry_to_string(v, expire) ==
    EntryHead \o to_string(v) \o EntryMid \o FmtU64(expire) \o EntryTail

\* s has p at position i
HasAt(s, i, p) ==
    /\ i + Len(p) - 1 <= Len(s)
    /\ \A j \in 1..Len(p) : s[i + j - 1] = p[j]

\* end (exclusive) of the run of digits of s that starts at i
RECURSIVE DigitsEnd(_, _)
DigitsEnd(s, i) == IF i <= Len(s) /\ IsDigit(s[i]) THEN DigitsEnd(s, i + 1) ELSE i

RECURSIVE NatOf(_)
NatOf(ds) ==
    IF Len(ds) = 0 THEN 0
    ELSE 10 * NatOf(SubSeq(ds, 1, Len(ds) - 1)) + DigitVal(ds[Len(ds)])

ParseFail == [ok |-> FALSE, val |-> NoVal, next |-> 0]

\* a JSON number read as u64, starting at i
parse_u64(s, i) ==
    LET e == DigitsEnd(s, i)
        ds == SubSeq(s, i, e - 1)
    IN  IF e = i THEN ParseFail
        ELSE IF Len(ds) > 1 /\ ds[1] = "0" THEN ParseFail
        ELSE IF Len(ds) <= 4 THEN [ok |-> TRUE, val |-> U64Val(NatOf(ds)), next |-> e]
        ELSE IF /\ Len(ds) = 20
                /\ SubSeq(ds, 1, 16) = U64TopDigits
                /\ NatOf(SubSeq(ds, 17, 20)) < U64LowDigits
             THEN [ok |-> TRUE,
                   val |-> U64Val(NatOf(SubSeq(ds, 17, 20)) - U64LowDigits),
                   next |-> e]
        ELSE ParseFail

\* position of the first quote of s at or after i (Len(s) + 1 when none)
RECURSIVE QuoteAt(_, _)
QuoteAt(s, i) == IF i > Len(s) \/ s[i] = "\"" THEN i ELSE QuoteAt(s, i + 1)

\* a JSON string, starting at i
parse_string(s, i) ==
    IF ~(i <= Len(s) /\ s[i] = "\"") THEN ParseFail
    ELSE LET q == QuoteAt(s, i + 1)
         IN  IF q > Len(s) THEN ParseFail
             ELSE [ok |-> TRUE, val |-> StrVal(SubSeq(s, i + 1, q - 1)), next |-> q + 1]

parse_value(s, i, B) == IF B = "u64" THEN parse_u64(s, i) ELSE parse_string(s, i)

\* serde_json::from_slice::<B>: the whole input is one value of type B
from_slice(s, B) ==
    LET r == parse_value(s, 1, B)
    IN  IF r.ok /\ r.next = Len(s) + 1 THEN [ok |-> TRUE, data |-> r.val]
        ELSE [ok |-> FALSE, data |-> NoVal]

EntryFail == [ok |-> FALSE, data |-> NoVal, expire |-> 0]

\* serde_json::from_str::<KVFilesystemJsonData<B>>
entry_from_str(s, B) ==
    IF ~HasAt(s, 1, EntryHead) THEN EntryFail
    ELSE LET d == parse_value(s, Len(EntryHead) + 1, B)
         IN  IF ~d.ok \/ ~HasAt(s, d.next, EntryMid) THEN EntryFail
             ELSE LET x == parse_u64(s, d.next + Len(EntryMid))
                  IN  IF x.ok /\ HasAt(s, x.next, EntryTail) /\ x.next = Len(s)
                      THEN [ok |-> TRUE, data |-> d.val, expire |-> x.val.n]
                      ELSE EntryFail

\* --------------------------------------------------------------- keys
Keys == {<<"a", "/", "b">>, <<"a", "-", "b">>}

Disallowed == {"/", "\\", ":", "*", "?", "\"", "<", ">", "|", ".", "@", "_"}

TOKI_KV_PREFIX == <<>>

\* only the first occurrence replaced
RECURSIVE replace_first(_, _, _)
replace_first(s, from, to) ==
    IF s = <<>> THEN <<>>
    ELSE IF Head(s) = from THEN to \o Tail(s)
    ELSE <<Head(s)>> \o replace_first(Tail(s), from, to)

\* str::replace: every occurrence of the character from replaced by the text to
RECURSIVE replace(_, _, _)
replace(s, from, to) ==
    IF s = <<>> THEN <<>>
    ELSE (IF Head(s) = from THEN to ELSE <<Head(s)>>) \o replace(Tail(s), from, to)

\* format!("{}{}", a, b)
format(a, b) == a \o b

\* normailze_key with the value prrefix of the environment variable
normailze_key_in(prrefix, key) ==
    LET k1 == replace(key, "/", <<"-">>)
        k2 == replace(k1, "\\", <<"-">>)
        k3 == replace(k2, ":", <<"-">>)
        k4 == replace(k3, "*", <<"-">>)
        k5 == replace(k4, "?", <<"-">>)
        k6 == replace(k5, "\"", <<"-">>)
        k7 == replace(k6, "<", <<"-">>)
        k8 == replace(k7, ">", <<"-">>)
        k9 == replace(k8, "|", <<"-">>)
        k10 == replace(k9, ".", <<"-">>)
        k11 == replace(k10, "@", <<"-">>)
        k12 == replace(k11, "_", <<"-">>)
    IN  format(prrefix, k12)

\* the facade passing the caller's key on as it is
normailze_key_Raw(key) == key

normailze_key(key) == normailze_key_in(TOKI_KV_PREFIX, key)

BKeys == {normailze_key(k) : k \in Keys}

TTLs == {0, 1, U64Max}

\* ------------------------------------------------------------- state
VARIABLES
    backend,    \* the variant of KVManager: "fs" or "redis"
    clock,      \* now(): Unix time in seconds
    io,         \* the physical store is usable (directory accessible, redis reachable)
    files,      \* KVFilesystem: backend key -> the file <root>/<key>.json
    redis,      \* KVRedis: backend key -> the stored value and its deadline
    proc,       \* the callers: position and arguments of each call in flight
    ret,        \* the call that returned in the latest step, with its result
    last,       \* history: backend key -> the last mutation that completed on it
    calls,      \* number of calls made so far, where a specification bounds it
    mgr,        \* KVManager::new: the connection string, its outcome, the root path
    norm        \* an evaluation of normailze_key: its inputs and its results

vars == <<backend, clock, io, files, redis, proc, ret, last, calls, mgr, norm>>

NoFile == [exists |-> FALSE, bytes |-> <<>>]
NoEntry == [exists |-> FALSE, bytes |-> <<>>, deadline |-> 0]

NoRes == [kind |-> "-", opt |-> "-", value |-> NoVal, hit |-> FALSE]
Ok(v) == [kind |-> "Ok", opt |-> "-", value |-> v, hit |-> FALSE]
Err(kind) == [kind |-> kind, opt |-> "-", value |-> NoVal, hit |-> FALSE]
OkSome(v) == [kind |-> "Ok", opt |-> "Some", value |-> v, hit |-> FALSE]
OkNone == [kind |-> "Ok", opt |-> "None", value |-> NoVal, hit |-> FALSE]
\* the hit flag never set
KvGetOrInitResult_NeverHit(v, hit) ==
    [kind |-> "Ok", opt |-> "-", value |-> v, hit |-> FALSE]

KvGetOrInitResult(v, hit) == [kind |-> "Ok", opt |-> "-", value |-> v, hit |-> hit]

\* a caller: op, key, B, val (the value given, the default, or the initializer's
\* result), ttl are the call; at and buf are the now() and the text of a set in
\* flight; inits counts the invocations of the initializer
IdleProc ==
    [pc |-> "idle", op |-> "-", key |-> <<>>, B |-> "-", val |-> NoVal, ttl |-> 0,
     at |-> 0, buf |-> <<>>, inits |-> 0]

NoRet ==
    [p |-> 0, op |-> "-", key |-> <<>>, B |-> "-", val |-> NoVal, ttl |-> 0,
     inits |-> 0, res |-> NoRes]

NoLast ==
    [kind |-> "none", by |-> "-", key |-> <<>>, value |-> NoVal, ttl |-> 0, at |-> 0,
     solo |-> TRUE]

\* ---------------------------------------------------------- construction
FilePrefix == <<"f", "i", "l", "e", ":">>
RedisPrefix == <<"r", "e", "d", "i", "s", ":">>
RedisUnixPrefix == <<"r", "e", "d", "i", "s", "+", "u", "n", "i", "x", ":">>

starts_with(s, p) == HasAt(s, 1, p)
strip_prefix(s, p) == SubSeq(s, Len(p) + 1, Len(s))

\* redis::Client::open: the string has to be a URL with a host (redis:) or with
\* a socket path (redis+unix:)
Client_open(conn) ==
    IF starts_with(conn, RedisPrefix)
    THEN HasAt(conn, Len(RedisPrefix) + 1, <<"/", "/">>) /\ Len(conn) > Len(RedisPrefix) + 2
    ELSE /\ HasAt(conn, Len(RedisUnixPrefix) + 1, <<"/", "/", "/">>)
         /\ Len(conn) > Len(RedisUnixPrefix) + 3

\* a string of no known scheme taken for a directory
KVManager_new_DefaultFile(conn) ==
    IF starts_with(conn, FilePrefix)
    THEN [conn |-> conn, res |-> "Ok", variant |-> "fs", path |-> strip_prefix(conn, FilePrefix)]
    ELSE IF starts_with(conn, RedisPrefix) \/ starts_with(conn, RedisUnixPrefix)
    THEN IF Client_open(conn)
         THEN [conn |-> conn, res |-> "Ok", variant |-> "redis", path |-> <<>>]
         ELSE [conn |-> conn, res |-> "Err", variant |-> "none", path |-> <<>>]
    ELSE [conn |-> conn, res |-> "Ok", variant |-> "fs", path |-> conn]

\* KVManager::new
KVManager_new(conn) ==
    IF starts_with(conn, FilePrefix)
    THEN [conn |-> conn, res |-> "Ok", variant |-> "fs", path |-> strip_prefix(conn, FilePrefix)]
    ELSE IF starts_with(conn, RedisPrefix) \/ starts_with(conn, RedisUnixPrefix)
    THEN IF Client_open(conn)
         THEN [conn |-> conn, res |-> "Ok", variant |-> "redis", path |-> <<>>]
         ELSE [conn |-> conn, res |-> "Err", variant |-> "none", path |-> <<>>]
    ELSE [conn |-> conn, res |-> "Panic", variant |-> "none", path |-> <<>>]

NoMgr == [conn |-> <<>>, res |-> "-", variant |-> "none", path |-> <<>>]

FileConn == FilePrefix \o <<"/", "d">>
RedisConn == RedisPrefix \o <<"/", "/", "h">>
RedisUnixConn == RedisUnixPrefix \o <<"/", "/", "/", "s">>

\* the connection strings tried
Conns ==
    { FileConn, FilePrefix, <<"F">> \o Tail(FileConn), <<"f", "i", "l", "e">>,
      RedisConn, RedisPrefix, RedisPrefix \o <<"h">>,
      <<"r", "e", "d", "i", "s", "s", ":", "/", "/", "h">>,
      RedisUnixConn, RedisUnixPrefix, <<"R">> \o Tail(RedisConn), <<"x">> \o FileConn,
      <<>> }

NoNorm == [prrefix |-> <<>>, key |-> <<>>, out |-> <<>>, again |-> <<>>, pos |-> 0]

\* the state a manager built from conn starts in
Constructed(conn) ==
    /\ KVManager_new(conn).res = "Ok"
    /\ mgr = KVManager_new(conn)
    /\ backend = KVManager_new(conn).variant

\* nothing has been stored and no call made
Empty ==
    /\ clock = 1
    /\ io = TRUE
    /\ files = [k \in BKeys |-> NoFile]
    /\ redis = [k \in BKeys |-> NoEntry]
    /\ proc = [p \in Procs |-> IdleProc]
    /\ ret = NoRet
    /\ last = [k \in BKeys |-> NoLast]
    /\ calls = 0

\* a manager has been built
Started == Empty /\ \E conn \in {FileConn, RedisConn} : Constructed(conn)

Init == Started /\ norm = NoNorm

\* ------------------------------------------------------- backend reads
\* an entry that does not decode taken for a miss
KVFilesystem_get_DecodeIsMiss(k, B) ==
    IF ~io \/ ~files[k].exists THEN Err("NotFound")
    ELSE LET json == entry_from_str(files[k].bytes, B)
         IN  IF ~json.ok THEN Err("NotFound")
             ELSE IF json.expire # 0 /\ u64_lt(json.expire, clock) THEN Err("NotFound")
             ELSE Ok(json.data)

\* KVFilesystem::get: every failure of the read is NotFound
KVFilesystem_get(k, B) ==
    IF ~io \/ ~files[k].exists THEN Err("NotFound")
    ELSE LET json == entry_from_str(files[k].bytes, B)
         IN  IF ~json.ok THEN Err("Decode")
             ELSE IF json.expire # 0 /\ u64_lt(json.expire, clock) THEN Err("NotFound")
             ELSE Ok(json.data)

\* the read removing the file of an entry it finds expired
KVFilesystem_get_files_Eager(k, B) ==
    IF KVFilesystem_get(k, B) = Err("NotFound") /\ io /\ files[k].exists
    THEN [files EXCEPT ![k] = NoFile]
    ELSE files

\* the files after KVFilesystem::get: it reads and nothing else
KVFilesystem_get_files(k, B) == files

\* the store holds the key until its time to live has run out: surely while the
\* clock has not reached the deadline, surely not once it has passed it
RedisLive(k) == redis[k].exists /\ clock <= redis[k].deadline

\* KVRedis::get
KVRedis_get(k, B) ==
    IF ~io THEN Err("Connection")
    ELSE IF ~RedisLive(k) THEN Err("NotFound")
    ELSE LET r == from_slice(redis[k].bytes, B)
         IN  IF r.ok THEN Ok(r.data) ELSE Err("Decode")

\* KVManager::get
KVManager_get(key, B) ==
    IF backend = "fs" THEN KVFilesystem_get(normailze_key(key), B)
    ELSE KVRedis_get(normailze_key(key), B)

\* NotFound passed on like every other error
get_some_NoNone(r) == IF r.kind = "Ok" THEN OkSome(r.value) ELSE r

\* KVManager::get_some, given the result of get
get_some(r) ==
    IF r.kind = "Ok" THEN OkSome(r.value)
    ELSE IF r.kind = "NotFound" THEN OkNone
    ELSE r

\* the default for every error, not for NotFound alone
get_or_AnyError(r, default) == IF r.kind = "Ok" THEN Ok(r.value) ELSE Ok(default)

\* KVManager::get_or, given the result of get
get_or(r, default) ==
    IF r.kind = "Ok" THEN Ok(r.value)
    ELSE IF r.kind = "NotFound" THEN Ok(default)
    ELSE r

\* ------------------------------------------------------------ actions
Call(op, key, B) == [IdleProc EXCEPT !.op = op, !.key = key, !.B = B]

\* caller p leaves the call r with the result res
Return(p, r, res) ==
    /\ proc' = [proc EXCEPT ![p] = IdleProc]
    /\ ret' = [p |-> p, op |-> r.op, key |-> r.key, B |-> r.B, val |-> r.val,
               ttl |-> r.ttl, inits |-> r.inits, res |-> res]

\* caller p is suspended in the call r
Suspend(p, r) ==
    /\ proc' = [proc EXCEPT ![p] = r]
    /\ ret' = NoRet

\* other callers whose File::create has opened the file now at k
Writers(k, p) ==
    {q \in Procs \ {p} : proc[q].pc = "write" /\ normailze_key(proc[q].key) = k}

Get(p, key, B) ==
    /\ proc[p].pc = "idle"
    /\ Return(p, Call("get", key, B), KVManager_get(key, B))
    /\ files' = KVFilesystem_get_files(normailze_key(key), B)
    /\ UNCHANGED <<backend, clock, io, redis, last>>

GetSome(p, key, B) ==
    /\ proc[p].pc = "idle"
    /\ Return(p, Call("get_some", key, B), get_some(KVManager_get(key, B)))
    /\ files' = KVFilesystem_get_files(normailze_key(key), B)
    /\ UNCHANGED <<backend, clock, io, redis, last>>

GetOr(p, key, default) ==
    /\ proc[p].pc = "idle"
    /\ Return(p, [Call("get_or", key, default.t) EXCEPT !.val = default],
              get_or(KVManager_get(key, default.t), default))
    /\ files' = KVFilesystem_get_files(normailze_key(key), default.t)
    /\ UNCHANGED <<backend, clock, io, redis, last>>

\* what a call whose set succeeded returns
SetResult(r) ==
    IF r.op = "get_or_init" THEN KvGetOrInitResult(r.val, FALSE) ELSE Ok(NoVal)

\* KVFilesystem::set up to File::create.  expire + now() overflows u64 for a
\* ttl near u64::MAX: with overflow checks (checks) the task panics, without
\* them the sum wraps.
KVFilesystem_set(p, r, checks) ==
    LET k == normailze_key(r.key)
    IN  IF overflows(r.ttl, clock) /\ checks
        THEN /\ Return(p, r, Err("Panic"))
             /\ UNCHANGED <<files, redis, last>>
        ELSE IF ~io
        THEN /\ Return(p, r, Err("IO"))
             /\ UNCHANGED <<files, redis, last>>
        ELSE /\ files' = [files EXCEPT ![k] = [exists |-> TRUE, bytes |-> <<>>]]
             /\ Suspend(p, [r EXCEPT !.pc = "write",
                                     !.at = clock,
                                     !.buf = entry_to_string(r.val, wrapping_add(r.ttl, clock))])
             /\ UNCHANGED <<redis, last>>

\* SETEX takes a positive number of seconds that fits the store's signed range:
\* it refuses 0 and the values near 2^64
SetexAccepts(ttl) == ttl > 0

\* KVRedis::set
KVRedis_set(p, r) ==
    LET k == normailze_key(r.key)
    IN  IF ~io \/ ~SetexAccepts(r.ttl)
        THEN /\ Return(p, r, Err("Connection"))
             /\ UNCHANGED <<files, redis, last>>
        ELSE /\ redis' = [redis EXCEPT ![k] =
                            [exists |-> TRUE, bytes |-> to_string(r.val),
                             deadline |-> clock + r.ttl]]
             /\ last' = [last EXCEPT ![k] =
                           [kind |-> "set", by |-> r.op, key |-> r.key, value |-> r.val,
                            ttl |-> r.ttl, at |-> clock, solo |-> TRUE]]
             /\ Return(p, r, SetResult(r))
             /\ UNCHANGED files

\* KVManager::set, as far as its first suspension
KVManager_set(p, r, checks) ==
    IF backend = "fs" THEN KVFilesystem_set(p, r, checks) ELSE KVRedis_set(p, r)

Set(p, key, v, ttl, checks) ==
    /\ proc[p].pc = "idle"
    /\ KVManager_set(p, [Call("set", key, v.t) EXCEPT !.val = v, !.ttl = ttl], checks)
    /\ UNCHANGED <<backend, clock, io>>

\* the write of the buffer at offset 0 of the file opened by File::create
Overlay(cur, buf) == buf \o SubSeq(cur, Len(buf) + 1, Len(cur))

FsWrite(p) ==
    LET r == proc[p]
        k == normailze_key(r.key)
    IN  /\ r.pc = "write"
        /\ files' = [files EXCEPT ![k] =
                       [exists |-> TRUE, bytes |-> Overlay(files[k].bytes, r.buf)]]
        /\ last' = [last EXCEPT ![k] =
                      [kind |-> "set", by |-> r.op, key |-> r.key, value |-> r.val,
                       ttl |-> r.ttl, at |-> r.at,
                       solo |-> files[k].bytes = <<>> /\ Writers(k, p) = {}]]
        /\ Return(p, r, SetResult(r))
        /\ UNCHANGED <<backend, clock, io, redis>>

\* the same write after remove_file unlinked the opened file: it succeeds and
\* reaches no path
FsWriteUnlinked(p) ==
    LET r == proc[p]
        k == normailze_key(r.key)
    IN  /\ r.pc = "write_unlinked"
        /\ last' = [last EXCEPT ![k] =
                      [kind |-> "set_unlinked", by |-> r.op, key |-> r.key,
                       value |-> r.val, ttl |-> r.ttl, at |-> r.at, solo |-> FALSE]]
        /\ Return(p, r, SetResult(r))
        /\ UNCHANGED <<backend, clock, io, files, redis>>

\* KVFilesystem::del
KVFilesystem_del(p, r) ==
    LET k == normailze_key(r.key)
    IN  IF ~io \/ ~files[k].exists
        THEN /\ Return(p, r, Err("IO"))
             /\ UNCHANGED <<files, redis, last>>
        ELSE /\ files' = [files EXCEPT ![k] = NoFile]
             /\ last' = [last EXCEPT ![k] = [NoLast EXCEPT !.kind = "del", !.by = "del", !.key = r.key]]
             /\ proc' = [q \in Procs |->
                           IF q = p THEN IdleProc
                           ELSE IF q \in Writers(k, p)
                                THEN [proc[q] EXCEPT !.pc = "write_unlinked"]
                                ELSE proc[q]]
             /\ ret' = [NoRet EXCEPT !.p = p, !.op = r.op, !.key = r.key, !.res = Ok(NoVal)]
             /\ UNCHANGED redis

\* KVRedis::del
KVRedis_del(p, r) ==
    LET k == normailze_key(r.key)
    IN  IF ~io
        THEN /\ Return(p, r, Err("Connection"))
             /\ UNCHANGED <<files, redis, last>>
        ELSE /\ redis' = [redis EXCEPT ![k] = NoEntry]
             /\ last' = [last EXCEPT ![k] = [NoLast EXCEPT !.kind = "del", !.by = "del", !.key = r.key]]
             /\ Return(p, r, Ok(NoVal))
             /\ UNCHANGED files

\* KVManager::del
KVManager_del(p, r) ==
    IF backend = "fs" THEN KVFilesystem_del(p, r) ELSE KVRedis_del(p, r)

Del(p, key) ==
    /\ proc[p].pc = "idle"
    /\ KVManager_del(p, Call("del", key, "-"))
    /\ UNCHANGED <<backend, clock, io>>

\* KVManager::get_or_init up to the end of its read
GetOrInit(p, key, B, ttl) ==
    LET r == [Call("get_or_init", key, B) EXCEPT !.ttl = ttl]
        value == get_some(KVManager_get(key, B))
    IN  /\ proc[p].pc = "idle"
        /\ IF value.kind # "Ok" THEN Return(p, r, value)
           ELSE IF value.opt = "Some"
                THEN Return(p, r, KvGetOrInitResult(value.value, TRUE))
                ELSE Suspend(p, [r EXCEPT !.pc = "init"])
        /\ files' = KVFilesystem_get_files(normailze_key(key), B)
        /\ UNCHANGED <<backend, clock, io, redis, last>>

\* the set issued without the caller's ttl
InitValue_NoTtl(r, v) == [r EXCEPT !.val = v, !.inits = @ + 1, !.ttl = 0]

\* the call r once its initializer has returned Ok(v): the arguments of its set
InitValue(r, v) == [r EXCEPT !.val = v, !.inits = @ + 1]

\* the initializer of a get_or_init completes with Ok(v), and set begins
InitOk(p, v, checks) ==
    /\ proc[p].pc = "init"
    /\ v.t = proc[p].B
    /\ KVManager_set(p, InitValue(proc[p], v), checks)
    /\ UNCHANGED <<backend, clock, io>>

\* the failed call clearing the key's entry before it returns
InitErr_Clears(p) ==
    LET k == normailze_key(proc[p].key)
    IN  /\ proc[p].pc = "init"
        /\ Return(p, [proc[p] EXCEPT !.inits = @ + 1], Err("Init"))
        /\ files' = [files EXCEPT ![k] = NoFile]
        /\ redis' = [redis EXCEPT ![k] = NoEntry]
        /\ UNCHANGED <<backend, clock, io, last>>

\* the initializer completes with an error
InitErr(p) ==
    /\ proc[p].pc = "init"
    /\ Return(p, [proc[p] EXCEPT !.inits = @ + 1], Err("Init"))
    /\ UNCHANGED <<backend, clock, io, files, redis, last>>

\* ------------------------------------------------------- environment
Tick ==
    /\ clock < MaxClock
    /\ clock' = clock + 1
    /\ ret' = NoRet
    /\ UNCHANGED <<backend, io, files, redis, proc, last>>

IoFail ==
    /\ io
    /\ io' = FALSE
    /\ ret' = NoRet
    /\ UNCHANGED <<backend, clock, files, redis, proc, last>>

IoRecover ==
    /\ ~io
    /\ io' = TRUE
    /\ ret' = NoRet
    /\ UNCHANGED <<backend, clock, files, redis, proc, last>>

\* the store drops a key whose time to live has run out
RedisExpire(k) ==
    /\ backend = "redis"
    /\ redis[k].exists
    /\ clock >= redis[k].deadline
    /\ redis' = [redis EXCEPT ![k] = NoEntry]
    /\ ret' = NoRet
    /\ UNCHANGED <<backend, clock, io, files, proc, last>>

\* a call counted against the bound on the number of calls
Counted(A) == calls < MaxCalls /\ calls' = calls + 1 /\ A /\ UNCHANGED <<mgr, norm>>

\* a step that is no new call
Step(A) == A /\ UNCHANGED <<calls, mgr, norm>>

\* every interleaving of the callers' steps, for a bounded number of calls
Next ==
    \/ \E p \in Procs, key \in Keys, B \in Types : Counted(Get(p, key, B))
    \/ \E p \in Procs, key \in Keys, B \in Types : Counted(GetSome(p, key, B))
    \/ \E p \in Procs, key \in Keys, default \in Values : Counted(GetOr(p, key, default))
    \/ \E p \in Procs, key \in Keys, v \in Values, ttl \in TTLs, checks \in BOOLEAN :
          Counted(Set(p, key, v, ttl, checks))
    \/ \E p \in Procs, key \in Keys : Counted(Del(p, key))
    \/ \E p \in Procs, key \in Keys, B \in Types, ttl \in TTLs :
          Counted(GetOrInit(p, key, B, ttl))
    \/ \E p \in Procs, v \in Values, checks \in BOOLEAN : Step(InitOk(p, v, checks))
    \/ \E p \in Procs : Step(InitErr(p))
    \/ \E p \in Procs : Step(FsWrite(p))
    \/ \E p \in Procs : Step(FsWriteUnlinked(p))
    \/ \E k \in BKeys : Step(RedisExpire(k))
    \/ Step(Tick)
    \/ Step(IoFail)
    \/ Step(IoRecover)

Spec == Init /\ [][Next]_vars

\* calls that do not overlap: one caller, whose next call starts when the last
\* one has returned
AllIdle == \A q \in Procs : proc[q].pc = "idle"

Caller == CHOOSE p \in Procs : TRUE

NextSeq ==
    \/ \E key \in Keys, B \in Types : Step(AllIdle /\ Get(Caller, key, B))
    \/ \E key \in Keys, B \in Types : Step(AllIdle /\ GetSome(Caller, key, B))
    \/ \E key \in Keys, default \in Values : Step(AllIdle /\ GetOr(Caller, key, default))
    \/ \E key \in Keys, v \in Values, ttl \in TTLs, checks \in BOOLEAN :
          Step(AllIdle /\ Set(Caller, key, v, ttl, checks))
    \/ \E key \in Keys : Step(AllIdle /\ Del(Caller, key))
    \/ \E key \in Keys, B \in Types, ttl \in TTLs :
          Step(AllIdle /\ GetOrInit(Caller, key, B, ttl))
    \/ \E v \in Values, checks \in BOOLEAN : Step(InitOk(Caller, v, checks))
    \/ Step(InitErr(Caller))
    \/ Step(FsWrite(Caller))
    \/ \E k \in BKeys : Step(RedisExpire(k))
    \/ Step(Tick)
    \/ Step(IoFail)
    \/ Step(IoRecover)

SpecSeq == Init /\ [][NextSeq]_vars

\* concurrent get_or_init calls alone, on an absent key, every initializer
\* succeeding and no failure of the store
NextConcurrent ==
    \/ \E p \in Procs, key \in Keys : Step(GetOrInit(p, key, "u64", 1))
    \/ \E p \in Procs, v \in Values : Step(InitOk(p, v, FALSE))
    \/ \E p \in Procs : Step(FsWrite(p))
    \/ \E k \in BKeys : Step(RedisExpire(k))
    \/ Step(Tick)

SpecConcurrent == Init /\ [][NextConcurrent]_vars

\* construction from a connection string, and the non-overlapping calls made on
\* the manager it gives
InitNew == Empty /\ backend = "none" /\ mgr = NoMgr /\ norm = NoNorm

New(conn) ==
    /\ mgr.res = "-"
    /\ mgr' = KVManager_new(conn)
    /\ backend' = KVManager_new(conn).variant
    /\ UNCHANGED <<clock, io, files, redis, proc, ret, last, calls, norm>>

\* new has returned a manager and no call on it is in flight
Built == mgr.res = "Ok" /\ AllIdle

NextNew ==
    \/ \E conn \in Conns : New(conn)
    \/ \E key \in Keys, B \in Types : Step(Built /\ Get(Caller, key, B))
    \/ \E key \in Keys, v \in Values : Step(Built /\ Set(Caller, key, v, 1, FALSE))
    \/ \E key \in Keys : Step(Built /\ Del(Caller, key))
    \/ Step(FsWrite(Caller))
    \/ \E k \in BKeys : Step(mgr.res = "Ok" /\ RedisExpire(k))
    \/ Step(mgr.res = "Ok" /\ Tick)

SpecNew == InitNew /\ [][NextNew]_vars

\* normailze_key by itself, on every short key over the replaced characters, a
\* letter and the dash, with and without a prefix in the environment
MaxKeyLen == 2

NormAlphabet == Disallowed \cup {"a", "-"}

KeyABC == <<"a", "/", "b", ":", "c">>
KeyABCDashed == <<"a", "-", "b", "-", "c">>

NormKeys ==
    UNION {[1..n -> NormAlphabet] : n \in 0..MaxKeyLen} \cup {KeyABC, KeyABCDashed}

Prefixes == {<<>>, <<"p", "_">>}

InitNormalize ==
    /\ Started
    /\ \E prrefix \in Prefixes, key \in NormKeys :
          norm = [NoNorm EXCEPT !.prrefix = prrefix, !.key = key]

Normalize ==
    /\ norm.pos = 0
    /\ norm' = [norm EXCEPT !.out = normailze_key_in(norm.prrefix, norm.key), !.pos = 1]
    /\ UNCHANGED <<backend, clock, io, files, redis, proc, ret, last, calls, mgr>>

\* the result normalized once more
NormalizeAgain ==
    /\ norm.pos = 1
    /\ norm' = [norm EXCEPT !.again = normailze_key_in(norm.prrefix, norm.out), !.pos = 2]
    /\ UNCHANGED <<backend, clock, io, files, redis, proc, ret, last, calls, mgr>>

NextNormalize == Normalize \/ NormalizeAgain

SpecNormalize == InitNormalize /\ [][NextNormalize]_vars

\* ---------------------------------------------------------- properties
\* a call of op returned in this step
Returned(op) == ret' # NoRet /\ ret'.op = op

\* a call of op was made and returned in this step, without suspending
ReturnedAtOnce(op) == Returned(op) /\ proc[ret'.p].pc = "idle"

\* the last mutation completed on backend key k is a set that no other
\* mutation overlapped, and no call is in flight
SetStands(k) == last[k].kind = "set" /\ last[k].solo /\ AllIdle

\* k was never written, or the last mutation completed on it is a delete
Absent(k) == last[k].kind \in {"none", "del"} /\ AllIdle

\* this step is get::<B>(key) for the type of the value last set at key's entry
GetOfLastSet(k) ==
    /\ ReturnedAtOnce("get")
    /\ normailze_key(ret'.key) = k
    /\ ret'.B = last[k].value.t

\* C4: a successful set(k, v, t) with t > 0, followed by get(k) with the clock
\* not advanced and nothing else done to k, returns v, on either backend.
C4_RoundTrip ==
    [][\A k \in BKeys :
          (SetStands(k) /\ last[k].ttl # 0 /\ last[k].at = clock /\ io /\ GetOfLastSet(k))
              => ret'.res = Ok(last[k].value)]_vars

\* now > T + t, for the numbers themselves (no wrap-around)
Outlived(T, t, now) == t >= 0 /\ now > T + t

\* C5: Filesystem: after set(k, v, t), t > 0, at time T, get(k) at time now is
\* NotFound exactly if now > T + t, and returns v while now <= T + t.
C5_FsExpiration ==
    [][\A k \in BKeys :
          (backend = "fs" /\ SetStands(k) /\ last[k].ttl # 0 /\ io /\ GetOfLastSet(k))
              => /\ (ret'.res = Err("NotFound")) <=> Outlived(last[k].at, last[k].ttl, clock)
                 /\ ~Outlived(last[k].at, last[k].ttl, clock)
                       => ret'.res = Ok(last[k].value)]_vars

\* C6: Filesystem: after set(k, v, 0), get(k) returns v at every later time.
C6_FsTtlZeroNeverExpires ==
    [][\A k \in BKeys :
          (backend = "fs" /\ SetStands(k) /\ last[k].ttl = 0 /\ io /\ GetOfLastSet(k))
              => ret'.res = Ok(last[k].value)]_vars

\* C7: Filesystem: set(k, v, 0) stores expire = now, and get(k) with the clock
\* not advanced returns v: expire = now is not expired.
C7_FsTtlZeroBoundary ==
    [][\A k \in BKeys :
          (/\ backend = "fs" /\ SetStands(k) /\ last[k].ttl = 0
           /\ last[k].at = clock /\ io /\ GetOfLastSet(k))
              => /\ entry_from_str(files[k].bytes, ret'.B).expire = clock
                 /\ ret'.res = Ok(last[k].value)]_vars

C7_Witness ==
    \E k \in BKeys :
        /\ backend = "fs" /\ last[k].kind = "set" /\ last[k].ttl = 0 /\ last[k].at = clock
        /\ ret.op = "get" /\ normailze_key(ret.key) = k
        /\ entry_from_str(files[k].bytes, ret.B).expire = clock
        /\ ret.res = Ok(last[k].value) /\ ret.res.value \in Values

\* C8: for a key never written, or last deleted, get fails with NotFound,
\* get_some returns None and get_or returns the default, on both backends.
C8_Absence ==
    [][\A k \in BKeys :
          (Absent(k) /\ io /\ normailze_key(ret'.key) = k)
              => /\ ReturnedAtOnce("get") => ret'.res = Err("NotFound")
                 /\ ReturnedAtOnce("get_some") => ret'.res = OkNone
                 /\ ReturnedAtOnce("get_or") => ret'.res = Ok(ret'.val)]_vars

C8_Witness ==
    \E k \in BKeys :
        /\ last[k].kind = "del" /\ AllIdle /\ io
        /\ ret.op = "get_or" /\ normailze_key(ret.key) = k
        /\ ret.val \in Values /\ ret.res = Ok(ret.val)

\* C10: del(k) on a key that is absent returns success and changes nothing, on
\* both backends.
C10_DelIdempotent ==
    [][\A k \in BKeys :
          (Absent(k) /\ io /\ ReturnedAtOnce("del") /\ normailze_key(ret'.key) = k)
              => /\ ret'.res = Ok(NoVal)
                 /\ files' = files /\ redis' = redis]_vars

\* the entry last set at k has not outlived its ttl: on the Filesystem backend it
\* is kept through the second T + ttl, the store drops it when T + ttl is reached
InTtl(k) ==
    IF backend = "fs" THEN ~Outlived(last[k].at, last[k].ttl, clock)
    ELSE clock < last[k].at + last[k].ttl

\* this step is the read of a get_or_init::<B>(key) for backend key k
GetOrInitReads(k, B) ==
    \/ ReturnedAtOnce("get_or_init") /\ normailze_key(ret'.key) = k /\ ret'.B = B
    \/ \E p \in Procs :
          /\ proc[p].pc = "idle" /\ proc'[p].pc = "init"
          /\ normailze_key(proc'[p].key) = k /\ proc'[p].B = B

\* C2: the first get_or_init on an absent key returns {computed, hit: false} and
\* leaves the key set to computed; a second get_or_init afterward, with no write
\* or delete in between, returns {computed, hit: true} and runs no initializer.
C2_GetOrInitSequential ==
    [][\A k \in BKeys :
          /\ \A key \in Keys, v \in Values :
                (/\ Returned("get_or_init") /\ proc[ret'.p].pc # "idle"
                 /\ ret'.key = key /\ normailze_key(key) = k
                 /\ last[k].kind \in {"none", "del"} /\ io
                 /\ ret'.res.kind # "Init" /\ ret'.val = v)
                    => /\ v.t = ret'.B
                       /\ ret'.res = KvGetOrInitResult(v, FALSE)
          /\ (/\ SetStands(k) /\ last[k].by = "get_or_init" /\ InTtl(k) /\ io
              /\ GetOrInitReads(k, last[k].value.t))
                 => /\ ReturnedAtOnce("get_or_init")
                    /\ ret'.res = KvGetOrInitResult(last[k].value, TRUE)
                    /\ ret'.inits = 0]_vars
    /\ [](\A key \in Keys, v \in Values :
            (/\ ret.op = "get_or_init" /\ ret.key = key /\ ret.val = v /\ io
             /\ ret.res = KvGetOrInitResult(v, FALSE))
                => KVManager_get(key, v.t) = Ok(v))

\* C3: a get_or_init that succeeds returns hit = true exactly if the value was
\* read from the backend and no initializer ran, and hit = false exactly if the
\* initializer ran and its result is the value returned.
C3_HitFlag ==
    [][(Returned("get_or_init") /\ ret'.res.kind = "Ok")
          => LET read == KVManager_get(ret'.key, ret'.B)
             IN  /\ ret'.res.hit <=> /\ proc[ret'.p].pc = "idle"
                                     /\ read.kind = "Ok"
                                     /\ ret'.res.value = read.value
                                     /\ ret'.inits = 0
                 /\ ~ret'.res.hit <=> /\ ret'.inits = 1
                                      /\ ret'.val \in ValuesOf(ret'.B)
                                      /\ ret'.res.value = ret'.val]_vars

C3_Witness ==
    /\ ret.op = "get_or_init" /\ ret.res.kind = "Ok"
    /\ ret.res.hit /\ ret.inits = 0 /\ ret.res.value \in ValuesOf(ret.B)
    /\ KVManager_get(ret.key, ret.B) = Ok(ret.res.value)

\* C9: when the underlying get fails with a kind other than NotFound, get_some,
\* get_or and get_or_init return that error as it is: no None, no default, no
\* initializer run.
C9_ErrorsPropagate ==
    [][\A p \in Procs :
          proc[p].pc = "idle"
              => /\ (/\ ret' # NoRet /\ ret'.p = p
                     /\ ret'.op \in {"get_some", "get_or", "get_or_init"}
                     /\ KVManager_get(ret'.key, ret'.B).kind \notin {"Ok", "NotFound"})
                        => /\ ret'.res = KVManager_get(ret'.key, ret'.B)
                           /\ ret'.inits = 0
                 /\ proc'[p].pc = "init"
                        => KVManager_get(proc'[p].key, proc'[p].B).kind = "NotFound"]_vars

C9_Witness ==
    /\ ret.op = "get_or_init" /\ ret.res.kind = "Decode" /\ ret.inits = 0
    /\ KVManager_get(ret.key, ret.B) = Err("Decode")

\* C1: concurrent get_or_init calls on one absent key, every initializer
\* succeeding: each call runs its initializer at most once and returns a value
\* some initializer computed, and when all have returned a get of the key
\* within its ttl returns such a value.
C1_ConcurrentGetOrInit ==
    [][Returned("get_or_init")
          => /\ ret'.inits <= 1
             /\ ret'.res.kind = "Ok"
             /\ ret'.res.value \in ValuesOf(ret'.B)]_vars
    /\ [](\A key \in Keys :
            LET k == normailze_key(key)
            IN  (AllIdle /\ last[k].kind = "set" /\ clock < last[k].at + last[k].ttl)
                   => KVManager_get(key, "u64") \in {Ok(v) : v \in ValuesOf("u64")})

\* C11: Filesystem get fails with NotFound only for a file that does not exist
\* or an expired entry; when the read of an existing file fails for another
\* reason, get fails with an IO error, and get_some, get_or and get_or_init
\* return it: no None, no default, no initializer run.
C11_FsReadErrorKinds ==
    [][\A k \in BKeys :
          (backend = "fs" /\ ~io /\ files[k].exists /\ AllIdle)
              => /\ (/\ ret' # NoRet /\ normailze_key(ret'.key) = k
                     /\ ret'.op \in {"get", "get_some", "get_or", "get_or_init"})
                        => ret'.res = Err("IO") /\ ret'.inits = 0
                 /\ \A p \in Procs :
                       ~(proc'[p].pc = "init" /\ normailze_key(proc'[p].key) = k)]_vars

\* C12: normailze_key(key) is the prefix followed by key with each of the
\* characters / \ : * ? " < > | . @ _ replaced by - and every other character
\* kept in place; a/b:c and a-b-c normalize alike; with an empty prefix,
\* normalizing the result again changes nothing.
C12_Normalization ==
    LET want == [i \in 1..Len(norm.key) |->
                   IF norm.key[i] \in Disallowed THEN "-" ELSE norm.key[i]]
    IN  /\ norm.pos >= 1
            => /\ norm.out = norm.prrefix \o want
               /\ Len(norm.out) = Len(norm.prrefix) + Len(norm.key)
        /\ (norm.pos >= 1 /\ norm.key \in {KeyABC, KeyABCDashed})
            => norm.out = norm.prrefix \o KeyABCDashed
        /\ (norm.pos = 2 /\ norm.prrefix = <<>>) => norm.again = norm.out

C12_Witness ==
    /\ norm.pos = 2 /\ norm.prrefix = <<>> /\ norm.key = <<"_", "_">>
    /\ norm.out = <<"-", "-">> /\ norm.again = norm.out

\* the connection strings by scheme, case-sensitive
WithFile == {FileConn, FilePrefix}
WithRedis == {RedisConn, RedisPrefix, RedisPrefix \o <<"h">>, RedisUnixConn, RedisUnixPrefix}

\* this step is KVManager::new(conn)
Constructs(conn) == mgr.res = "-" /\ mgr'.res # "-" /\ mgr'.conn = conn

\* what construction gives for file: and for the strings of no scheme, and the
\* variant staying as it is from then on
NewOtherwise ==
    /\ \A conn \in WithFile :
          Constructs(conn)
              => /\ mgr'.res = "Ok" /\ backend' = "fs"
                 /\ mgr'.path = SubSeq(conn, 6, Len(conn))
    /\ \A conn \in Conns \ (WithFile \cup WithRedis) :
          Constructs(conn) => mgr'.res \in {"Err", "Panic"} /\ backend' = "none"
    /\ mgr.res # "-" => backend' = backend /\ mgr' = mgr
    /\ mgr.res \in {"Err", "Panic"} => UNCHANGED vars

\* C13 as stated: file: gives the Filesystem backend rooted at the remainder,
\* redis: and redis+unix: give the Remote Store backend, every other string an
\* error and no manager; the variant never changes afterwards.
C13_SchemeSelectsBackend ==
    [][/\ NewOtherwise
       /\ \A conn \in WithRedis :
             Constructs(conn) => mgr'.res = "Ok" /\ backend' = "redis"]_vars

\* C13, amended: redis: and redis+unix: give the Remote Store backend or, when
\* the client does not accept the string as a connection URL, an error and no
\* manager; never the Filesystem backend.  The rest as stated.
C13_SchemeSelectsBackendOrFails ==
    [][/\ NewOtherwise
       /\ \A conn \in WithRedis :
             Constructs(conn)
                 => \/ mgr'.res = "Ok" /\ backend' = "redis"
                    \/ mgr'.res = "Err" /\ backend' = "none"
       /\ \A conn \in {RedisConn, RedisUnixConn} :
             Constructs(conn) => mgr'.res = "Ok"]_vars

C13_Witness ==
    /\ mgr.conn = RedisUnixConn /\ mgr.res = "Ok" /\ backend = "redis"
    /\ ret.op = "get" /\ ret.res.kind = "Ok" /\ ret.res.value \in Values

\* C14: in one get_or_init the initializer is invoked only after a read that
\* missed and at most once; set is issued only after the initializer returned
\* Ok, once, with the value it returned and the caller's key and ttl; hit: false
\* is returned only once that set has succeeded, hit: true only from the read.
C14_GetOrInitOrder ==
    [][\A p \in Procs :
          LET r == proc[p]
              k == normailze_key(r.key)
          IN  /\ (r.pc = "idle" /\ proc'[p].pc = "init")
                  => /\ proc'[p].inits = 0
                     /\ get_some(KVManager_get(proc'[p].key, proc'[p].B)) = OkNone
              /\ (proc'[p].pc = "init" /\ r.pc # "init") => r.pc = "idle"
              /\ (proc'[p].op = "get_or_init" /\ proc'[p].pc = "write" /\ r.pc # "write")
                  => /\ r.pc = "init" /\ r.inits = 0 /\ proc'[p].inits = 1
                     /\ proc'[p].val \in ValuesOf(r.B)
                     /\ proc'[p].key = r.key /\ proc'[p].ttl = r.ttl
                     /\ proc'[p].buf
                           = entry_to_string(proc'[p].val, wrapping_add(r.ttl, clock))
              /\ (Returned("get_or_init") /\ ret'.p = p /\ redis' # redis)
                  => /\ r.pc = "init" /\ r.inits = 0 /\ ret'.inits = 1
                     /\ ret'.val \in ValuesOf(r.B)
                     /\ redis' = [redis EXCEPT ![k] =
                                    [exists |-> TRUE, bytes |-> to_string(ret'.val),
                                     deadline |-> clock + r.ttl]]
              /\ (Returned("get_or_init") /\ ret'.p = p /\ ret'.res.kind = "Ok")
                  => /\ ret'.inits <= 1
                     /\ ret'.res.hit => r.pc = "idle" /\ ret'.inits = 0
                     /\ ~ret'.res.hit
                           => /\ ret'.inits = 1 /\ ret'.res.value = ret'.val
                              /\ IF backend = "fs"
                                 THEN /\ r.pc \in {"write", "write_unlinked"}
                                      /\ (r.pc = "write" /\ files[k].bytes = <<>>)
                                            => files'[k].bytes = r.buf
                                 ELSE r.pc = "init"
                                      /\ redis'[k].bytes = to_string(ret'.val)]_vars

C14_Witness ==
    /\ backend = "fs" /\ ret.op = "get_or_init" /\ ret.res.kind = "Ok" /\ ~ret.res.hit
    /\ ret.inits = 1 /\ ret.ttl = 1 /\ ret.val \in Values /\ ret.res.value = ret.val
    /\ entry_from_str(files[normailze_key(ret.key)].bytes, ret.B).data = ret.val

\* this step is the read of a call: a get, get_some or get_or, or the read that
\* begins a get_or_init, whether it returns at once or goes on to the initializer
ReadStep ==
    \/ ReturnedAtOnce("get") \/ ReturnedAtOnce("get_some") \/ ReturnedAtOnce("get_or")
    \/ ReturnedAtOnce("get_or_init")
    \/ \E p \in Procs : proc[p].pc = "idle" /\ proc'[p].pc = "init"

\* C15: get, get_some, get_or and the read of get_or_init leave every stored
\* entry as it is: a Filesystem entry found expired stays on disk, and a hit
\* rewrites neither the value nor the expire timestamp.
C15_ReadsLeaveStore ==
    [][ReadStep => files' = files /\ redis' = redis]_vars

C15_Witness ==
    \E k \in BKeys :
        LET json == entry_from_str(files[k].bytes, ret.B)
        IN  /\ backend = "fs" /\ io /\ ret.op = "get" /\ normailze_key(ret.key) = k
            /\ ret.res = Err("NotFound")
            /\ files[k].exists /\ json.ok /\ json.expire > 0 /\ json.expire < clock

\* C16: once the calls have returned, get(k) returns the value of the most
\* recent successful set of k while its ttl has not run out, and fails with
\* NotFound if the most recent successful mutation of k is a del, whatever the
\* interleaving of the sets, dels and get_or_init calls before.
C16_LastWriteWins ==
    \A key \in Keys :
        LET k == normailze_key(key)
        IN  (AllIdle /\ io)
                => /\ (/\ last[k].kind = "set" /\ last[k].ttl > 0
                       /\ clock < last[k].at + last[k].ttl)
                          => KVManager_get(key, last[k].value.t) = Ok(last[k].value)
                   /\ last[k].kind = "del"
                          => \A B \in Types : KVManager_get(key, B) = Err("NotFound")

\* the Filesystem entry at k decodes as B with expire > 0 and expire < now
FsExpired(k, B) ==
    LET json == entry_from_str(files[k].bytes, B)
    IN  /\ backend = "fs" /\ files[k].exists /\ json.ok
        /\ json.expire # 0 /\ u64_lt(json.expire, clock)

\* C17: on an expired Filesystem entry get_some returns None and get_or the
\* default; get_or_init invokes the initializer and, when it returns a value,
\* overwrites the entry with it and expire = ttl + now and returns
\* {value: computed, hit: false}.
C17_ExpiredIsAbsent ==
    [][\A p \in Procs, B \in Types :
          LET r == proc[p]
              k == normailze_key(r.key)
          IN  /\ \A bk \in BKeys :
                    (/\ FsExpired(bk, B) /\ io /\ r.pc = "idle" /\ ret' # NoRet
                     /\ ret'.p = p /\ ret'.B = B /\ normailze_key(ret'.key) = bk)
                        => /\ ret'.op = "get_some" => ret'.res = OkNone
                           /\ ret'.op = "get_or" => ret'.res = Ok(ret'.val)
                           /\ ret'.op # "get_or_init"
              /\ (/\ r.pc = "init" /\ r.B = B /\ FsExpired(k, B) /\ io
                   /\ proc'[p] # r /\ ~(ret' # NoRet /\ ret'.res = Err("Init")))
                      => /\ proc'[p].pc = "write"
                         /\ proc'[p].val \in ValuesOf(B)
                         /\ ~overflows(r.ttl, clock)
                         /\ entry_from_str(proc'[p].buf, B)
                               = [ok |-> TRUE, data |-> proc'[p].val,
                                  expire |-> r.ttl + clock]
              /\ (r.op = "get_or_init" /\ r.pc = "write" /\ proc'[p] # r)
                      => /\ ret'.res = KvGetOrInitResult(r.val, FALSE)
                         /\ files'[k] = [exists |-> TRUE, bytes |-> r.buf]]_vars

\* k1 and k2 are equal but for characters that normalization replaces, or dashes
Alias(k1, k2) ==
    /\ Len(k1) = Len(k2)
    /\ \A i \in 1..Len(k1) :
          k1[i] = k2[i] \/ {k1[i], k2[i]} \subseteq Disallowed \cup {"-"}

\* C18: the facade reaches the backend through the normalized key alone.  With
\* no call in flight, the entry last written through k1, by a set or by the miss
\* path of a get_or_init, is the one a get through any alias k2 of k1 reads (k1
\* itself included: the read and the write of a get_or_init meet on one entry),
\* and after a del through k2 the entry is gone for k1.  The ttl is one that the
\* store keeps (positive, no overflow) and has not run out.
C18_NormalizedKeyAddressing ==
    \A k1 \in Keys, k2 \in Keys :
        LET e1 == last[normailze_key(k1)]
            e2 == last[normailze_key(k2)]
        IN  (Alias(k1, k2) /\ AllIdle /\ io)
                => /\ (/\ e1.kind = "set" /\ e1.key = k1
                       /\ e1.ttl > 0 /\ clock < e1.at + e1.ttl)
                          => KVManager_get(k2, e1.value.t) = Ok(e1.value)
                   /\ (e2.kind = "del" /\ e2.key = k2)
                          => \A B \in Types : KVManager_get(k1, B) = Err("NotFound")

C18_Witness ==
    \E k1 \in Keys, k2 \in Keys :
        /\ k1 # k2 /\ Alias(k1, k2)
        /\ last[normailze_key(k1)].kind = "set" /\ last[normailze_key(k1)].key = k1
        /\ ret.op = "get" /\ ret.key = k2
        /\ ret.res = Ok(last[normailze_key(k1)].value) /\ ret.res.value \in Values

\* the store holds at k an entry that does not deserialize as B
Undecodable(k, B) ==
    IF backend = "fs" THEN files[k].exists /\ ~entry_from_str(files[k].bytes, B).ok
    ELSE RedisLive(k) /\ ~from_slice(redis[k].bytes, B).ok

\* C19: when the stored entry does not deserialize as the requested type, get
\* fails with Decode, on the Filesystem backend whether or not the entry has
\* expired; get_or_init returns the Decode error, runs no initializer and writes
\* nothing, so the entry stays.
C19_UndecodableEntry ==
    [][\A k \in BKeys, B \in Types :
          (Undecodable(k, B) /\ io /\ AllIdle)
              => /\ (/\ ret' # NoRet /\ ret'.B = B /\ normailze_key(ret'.key) = k
                     /\ ret'.op \in {"get", "get_or_init"})
                        => /\ ret'.res = Err("Decode") /\ ret'.inits = 0
                           /\ files' = files /\ redis' = redis
                 /\ \A p \in Procs :
                       ~(/\ proc'[p].pc = "init" /\ proc'[p].B = B
                         /\ normailze_key(proc'[p].key) = k)]_vars

C19_Witness ==
    \E k \in BKeys, B \in Types :
        LET json == entry_from_str(files[k].bytes, B)
        IN  /\ backend = "fs" /\ files[k].exists
            /\ json.ok /\ json.expire > 0 /\ json.expire < clock
            /\ ret.op = "get_or_init" /\ normailze_key(ret.key) = k /\ ret.B # B
            /\ ~entry_from_str(files[k].bytes, ret.B).ok
            /\ ret.res = Err("Decode") /\ ret.inits = 0

\* C20: when the initializer of a get_or_init returns an error, the call returns
\* that error, issues no set and leaves the store as it was, so that a call made
\* next on the key runs its initializer again; when the initializer succeeds and
\* set returns an error, the call returns the error of set, not the value.  (A
\* set that panics on the overflow of expire + now() returns nothing at all.)
C20_MissPathFailures ==
    [][\A p \in Procs :
          LET r == proc[p]
          IN  /\ (r.pc = "init" /\ ret' # NoRet /\ ret'.p = p /\ ret'.val = NoVal)
                  => /\ ret'.res = Err("Init") /\ ret'.inits = 1
                     /\ proc'[p] = IdleProc
                     /\ files' = files /\ redis' = redis /\ last' = last
              /\ (/\ r.pc = "idle" /\ ret # NoRet /\ ret.res = Err("Init") /\ io
                   /\ KVManager_get(ret.key, ret.B) = Err("NotFound")
                   /\ proc'[p].op = "get_or_init" /\ proc'[p].key = ret.key
                   /\ proc'[p].B = ret.B)
                  => proc'[p].pc = "init" /\ proc'[p].inits = 0
              /\ (r.pc = "init" /\ ret' # NoRet /\ ret'.p = p /\ ret'.val # NoVal)
                  => /\ ret'.val \in ValuesOf(r.B) /\ ret'.inits = 1
                     /\ (~io /\ ret'.res.kind # "Panic")
                           => /\ ret'.res = Err(IF backend = "fs" THEN "IO" ELSE "Connection")
                              /\ files' = files /\ redis' = redis
                     /\ ret'.res.kind \notin {"Ok", "Panic"}
                           => /\ ret'.res \in {Err("IO"), Err("Connection")}
                              /\ ret'.res.value # ret'.val]_vars

C20_Witness ==
    \E k \in BKeys :
        /\ backend = "fs" /\ files[k].exists /\ KVFilesystem_get(k, ret.B) = Err("NotFound")
        /\ ret.op = "get_or_init" /\ normailze_key(ret.key) = k
        /\ ret.res = Err("Init") /\ ret.inits = 1 /\ io

\* C21: KVFilesystem::set stores expire equal to the exact sum ttl + now for
\* every u64 ttl: the addition neither wraps nor aborts, so a set with a ttl
\* up to u64::MAX does not panic, the entry it writes carries expire = ttl + now
\* with no overflow, and no entry has an expire below the time of its set.
C21_ExactExpire ==
    /\ \A p \in Procs :
          (backend = "fs" /\ proc[p].pc \in {"write", "write_unlinked"})
              => LET json == entry_from_str(proc[p].buf, proc[p].B)
                 IN  /\ json.ok
                     /\ ~overflows(proc[p].ttl, proc[p].at)
                     /\ json.expire = proc[p].ttl + proc[p].at
                     /\ ~u64_lt(json.expire, proc[p].at)
    /\ (backend = "fs" /\ ret # NoRet /\ ret.op \in {"set", "get_or_init"})
          => ret.res.kind # "Panic"
    /\ \A k \in BKeys :
          (backend = "fs" /\ SetStands(k) /\ files[k].exists)
              => LET json == entry_from_str(files[k].bytes, last[k].value.t)
                 IN  json.ok /\ ~u64_lt(json.expire, last[k].at)

====
